---- MODULE Spec2Model ----
(***************************************************************************)
(* hyprevents: the event dispatch engine (src/hyprevents/__init__.py) and  *)
(* the workspace-swap tracker (src/dispatchers/workspaceswap.py).          *)
(*                                                                         *)
(* These specifications share this module:                                 *)
(*   SpecMon      one Monitor record under set_curr_wkspc                  *)
(*   SpecTracker  WorkspaceSwap: load_config, handle_event, the toggle     *)
(*   SpecReader   get_next_event's framing of one line (regex1)            *)
(*   SpecStream   get_next_event's recv loop, byte by byte                 *)
(*   SpecEngine   EventHandler: load/unload/reload, mainloop, dispatch     *)
(*   SpecEngineLive  SpecEngine with the fairness of the while test        *)
(* Each leaves the variables of the others at their initial values.        *)
(***************************************************************************)
EXTENDS Integers, Sequences, FiniteSets, TLC

VARIABLES
    \* ---- SpecMon
    rec,          \* the Monitor object
    recArgs,      \* arguments of the set_curr_wkspc calls made so far
    recTrace,     \* the record at construction and after every call
    recAssert,    \* TRUE once the assert of set_curr_wkspc has failed
    \* ---- SpecTracker
    loaded,       \* load_config has run (self.monitors / self.currentmon exist)
    monitors,     \* self.monitors: key -> Monitor object
    monorder,     \* insertion order of the keys of self.monitors
    ownmon,       \* the Monitor object load_config builds for self.currentmon
    currentmon,   \* which object self.currentmon refers to: Own or a key of monitors
    trkAssert,    \* TRUE once an assert of set_curr_wkspc has failed in the tracker
    last,         \* what the last tracker operation was given and what it did
    \* ---- SpecReader
    rdLine,       \* the bytes recv hands out before the newline
    rdEvent,      \* what get_next_event returned for them
    rdDone,       \* get_next_event has returned
    \* ---- SpecStream
    sockData,     \* bytes the peer has written to eventsock, not yet received
    sockEof,      \* the peer has closed its end of eventsock
    nSent,        \* bytes the peer has written so far
    gneBuf,       \* get_next_event's buf
    gneC,         \* get_next_event's c: what recv(1) returned
    gnePc,        \* where get_next_event is: idle, recv, test, returned
    gneResult,    \* what get_next_event returned last
    \* ---- SpecEngine
    handlers,     \* self.handlers: name -> handler object
    dispatchers,  \* self.dispatchers: event name -> list of handler objects
    gens,         \* name -> how many handler objects were made for it
    lastOp,       \* the last load / unload / reload call and how it ended
    pc,           \* where the process is: setup, check, read, dispatch, handling,
                  \* done, crashed
    running,      \* self.running
    sockOpen,     \* self.eventsock is open
    event,        \* the event being dispatched
    idx,          \* position of the for loop of dispatch_event
    nEvents,      \* events framed so far
    elog          \* what happened, in order: events read, handlers started/ended

monVars == <<rec, recArgs, recTrace, recAssert>>
trkVars == <<loaded, monitors, monorder, ownmon, currentmon, trkAssert, last>>
rdVars == <<rdLine, rdEvent, rdDone>>
skVars == <<sockData, sockEof, nSent, gneBuf, gneC, gnePc, gneResult>>
engVars == <<handlers, dispatchers, gens, lastOp, pc, running, sockOpen, event, idx,
             nEvents, elog>>
vars == <<monVars, trkVars, rdVars, skVars, engVars>>

(***************************************************************************)
(* Bounds                                                                  *)
(***************************************************************************)
MaxWs == 2          \* workspace ids are 1..MaxWs
MaxCalls == 5       \* set_curr_wkspc calls on the record of SpecMon
MaxLine == 7        \* bytes of a line in SpecReader
MaxLoads == 3       \* load_dispatcher calls in SpecEngine
MaxEvents == 2      \* events framed by the main loop in SpecEngine
MaxSent == 4        \* bytes the peer writes in SpecStream

Workspaces == 1..MaxWs

\* Python's None, and an integer held in an attribute that may be None.
None == <<>>
Some(w) == <<w>>

(***************************************************************************)
(* Monitor (workspaceswap.py 22-38)                                        *)
(***************************************************************************)
MonNames == {"DP-1", "HDMI-1"}
\* the gateway lists monitors by id
MonSeq == <<"DP-1", "HDMI-1">>
MonitorID(n) == CHOOSE i \in 1..Len(MonSeq) : MonSeq[i] = n

\* Monitor.__init__(name, id, wkspc)
Monitor(n, i, w) ==
    [name |-> n, id |-> i, curr_wkspc |-> Some(w), prev_wkspc |-> None]

\* set_curr_wkspc with its guard comparing against the previous workspace
SetCurrWkspcWrongGuard(m, w) ==
    IF m.prev_wkspc # Some(w)
    THEN [m EXCEPT !.prev_wkspc = m.curr_wkspc, !.curr_wkspc = Some(w)]
    ELSE m

\* the body of set_curr_wkspc with the guard left out
SetCurrWkspcUnguarded(m, w) ==
    [m EXCEPT !.prev_wkspc = m.curr_wkspc, !.curr_wkspc = Some(w)]

\* Monitor.set_curr_wkspc: the object after the call
SetCurrWkspc(m, w) ==
    IF m.curr_wkspc # Some(w)
    THEN [m EXCEPT !.prev_wkspc = m.curr_wkspc, !.curr_wkspc = Some(w)]
    ELSE m

\* the assert that ends set_curr_wkspc
AssertOk(m) == m.curr_wkspc # m.prev_wkspc

(***************************************************************************)
(* SpecMon: one record, any sequence of assignments                        *)
(***************************************************************************)
NoRec == [name |-> "", id |-> 0, curr_wkspc |-> None, prev_wkspc |-> None]

MonIdle ==
    /\ rec = NoRec
    /\ recArgs = <<>>
    /\ recTrace = <<>>
    /\ recAssert = FALSE

MonInit ==
    /\ \E w \in Workspaces : rec = Monitor("DP-1", MonitorID("DP-1"), w)
    /\ recArgs = <<>>
    /\ recTrace = <<rec>>
    /\ recAssert = FALSE

MonSetCurrWkspc ==
    /\ Len(recArgs) < MaxCalls
    /\ ~recAssert
    /\ \E w \in Workspaces :
         /\ rec' = SetCurrWkspc(rec, w)
         /\ recArgs' = Append(recArgs, w)
         /\ recTrace' = Append(recTrace, rec')
         /\ recAssert' = ~AssertOk(rec')
    /\ UNCHANGED <<trkVars, rdVars, skVars, engVars>>

(***************************************************************************)
(* The command gateway (hyprctl), as the tracker uses it.  One snapshot is *)
(* what the window manager reports at one instant: the monitors that are   *)
(* plugged in, the workspace shown on each (a workspace is shown on at     *)
(* most one monitor) and the focused monitor.                              *)
(***************************************************************************)
Injective(f) == \A a, b \in DOMAIN f : f[a] = f[b] => a = b

GwStates ==
    { [ws |-> f, active |-> a] :
        <<f, a>> \in UNION { { <<f, a>> : f \in {h \in [S -> Workspaces] : Injective(h)},
                                          a \in S }
                             : S \in (SUBSET MonNames) \ {{}} } }

\* send_hyprland_cmd("monitors"): a list, ordered by monitor id
GwMonitors(g) ==
    LET listed == SelectSeq(MonSeq, LAMBDA n : n \in DOMAIN g.ws)
    IN  [i \in 1..Len(listed) |->
            [name |-> listed[i], id |-> MonitorID(listed[i]),
             activeWorkspace |-> g.ws[listed[i]]]]

\* send_hyprland_cmd("activeworkspace")
GwActiveWorkspace(g) ==
    [monitor |-> g.active, monitorID |-> MonitorID(g.active), id |-> g.ws[g.active]]

NoGw == [ws |-> <<>>, active |-> ""]

(***************************************************************************)
(* WorkspaceSwap (workspaceswap.py 41-170).  The operators below work on a *)
(* record st of the object's attributes:                                   *)
(*   monitors, monorder  self.monitors (a dict keeps insertion order)      *)
(*   ownmon              the Monitor load_config builds for currentmon     *)
(*   currentmon          Own, or the key of the table entry currentmon is  *)
(*   bad                 an assert of set_curr_wkspc has failed            *)
(***************************************************************************)
Own == "<own>"

TrkState ==
    [monitors |-> monitors, monorder |-> monorder, ownmon |-> ownmon,
     currentmon |-> currentmon, bad |-> trkAssert]

\* the object self.currentmon refers to
CurrentMon(st) ==
    IF st.currentmon = Own THEN st.ownmon ELSE st.monitors[st.currentmon]

\* key.set_curr_wkspc(w) on a table entry
SetEntry(st, key, w) ==
    LET m == SetCurrWkspc(st.monitors[key], w)
    IN  [st EXCEPT !.monitors[key] = m, !.bad = @ \/ ~AssertOk(m)]

\* self.monitors[name] = Monitor(name, id, w) for a name not yet in the table
AddEntry(st, n, i, w) ==
    [st EXCEPT !.monitors = @ @@ (n :> Monitor(n, i, w)),
               !.monorder = Append(@, n)]

\* self.currentmon.set_curr_wkspc(w)
SetCurrent(st, w) ==
    LET m == SetCurrWkspc(CurrentMon(st), w)
    IN  IF st.currentmon = Own
        THEN [st EXCEPT !.ownmon = m, !.bad = @ \/ ~AssertOk(m)]
        ELSE [st EXCEPT !.monitors[st.currentmon] = m, !.bad = @ \/ ~AssertOk(m)]

\* update_monitor_info, for loop (105-111), from element i of the answer on
RECURSIVE UpdateLoop(_, _, _)
UpdateLoop(st, moninfo, i) ==
    IF i > Len(moninfo) THEN st
    ELSE LET mon == moninfo[i]
             st1 == IF mon.name \in DOMAIN st.monitors
                    THEN SetEntry(st, mon.name, mon.activeWorkspace)
                    ELSE AddEntry(st, mon.name, mon.id, mon.activeWorkspace)
         IN  UpdateLoop(st1, moninfo, i + 1)

\* update_monitor_info, lines 112-115: currentmon is renamed and assigned in place
UpdateCurrent(st, activews) ==
    LET renamed == [CurrentMon(st) EXCEPT !.name = activews.monitor,
                                          !.id = activews.monitorID]
        st1 == IF st.currentmon = Own
               THEN [st EXCEPT !.ownmon = renamed]
               ELSE [st EXCEPT !.monitors[st.currentmon] = renamed]
    IN  SetCurrent(st1, activews.id)

\* update_monitor_info
UpdateMonitorInfo(st, g) ==
    UpdateCurrent(UpdateLoop(st, GwMonitors(g), 1), GwActiveWorkspace(g))

\* find_wkspc_mon: the key of the first entry, in dict order, whose current
\* (prev: previous) workspace is wkspcid, as Some(key); None when there is none
FindWkspcMon(st, wkspcid, prev) ==
    LET hit(k) == IF prev THEN st.monitors[k].prev_wkspc = Some(wkspcid)
                  ELSE st.monitors[k].curr_wkspc = Some(wkspcid)
        hits == {i \in 1..Len(st.monorder) : hit(st.monorder[i])}
    IN  IF hits = {} THEN None
        ELSE Some(st.monorder[CHOOSE i \in hits : \A j \in hits : i <= j])

\* the test of line 153
SameAsCurrent(st, othermon) ==
    /\ othermon # None
    /\ st.monitors[othermon[1]].name = CurrentMon(st).name

\* do_workspace_change.  entered holds <<attributes, argument>> of every call
\* of this recursion that is still on the stack: with the gateway's answers
\* fixed the call is a function of that pair, so entering one again means the
\* recursion never returns (Python ends it with RecursionError).
\* Result: the attributes, the number of calls made, the focus requests sent.
RECURSIVE DoWorkspaceChange(_, _, _, _)
DoWorkspaceChange(st, g, wkspcid, entered) ==
    IF <<st, wkspcid>> \in entered
    THEN [st |-> st, calls |-> 0, cmds |-> <<>>, fault |-> "RecursionError"]
    ELSE
    LET st1 == UpdateMonitorInfo(st, g)
        othermon == FindWkspcMon(st1, wkspcid, FALSE)
        new_wkspcid == CurrentMon(st1).prev_wkspc
    IN  IF SameAsCurrent(st1, othermon)
        THEN IF new_wkspcid = None
             THEN [st |-> st1, calls |-> 1, cmds |-> <<>>, fault |-> "none"]
             ELSE LET r == DoWorkspaceChange(st1, g, new_wkspcid[1],
                                             entered \cup {<<st, wkspcid>>})
                  IN  [r EXCEPT !.calls = @ + 1]
        ELSE \* focus_workspace_on_current_mon
             [st |-> st1, calls |-> 1, cmds |-> <<wkspcid>>, fault |-> "none"]

(***************************************************************************)
(* SpecTracker: the WorkspaceSwap object under load_config and the events  *)
(* it subscribes to.  Event data is taken as already split into fields; a  *)
(* custom event's data is what the configured pattern makes of it: no      *)
(* match, a capture that is no integer, or an integer.                     *)
(*                                                                         *)
(* An exception leaving handle_event is not caught by dispatch_event or    *)
(* mainloop (only KeyboardInterrupt is), so it ends the process: no        *)
(* tracker operation follows one.                                          *)
(***************************************************************************)
CustomData ==
    {[kind |-> "nomatch", val |-> 0], [kind |-> "nonint", val |-> 0]}
        \cup {[kind |-> "int", val |-> t] : t \in Workspaces}

\* last: the operation, its inputs (the gateway snapshot it saw, its integer
\* argument, the monitor it named), the number of do_workspace_change calls,
\* the focus requests sent, the exception that left it, and currentmon as
\* the outermost do_workspace_change found it after its resync
Last(op, g, arg, mon, calls, cmds, fault, resynced) ==
    [op |-> op, gw |-> g, arg |-> arg, mon |-> mon, calls |-> calls,
     cmds |-> cmds, fault |-> fault, resynced |-> resynced]

TrkInit ==
    /\ loaded = FALSE
    /\ monitors = <<>>
    /\ monorder = <<>>
    /\ ownmon = NoRec
    /\ currentmon = Own
    /\ trkAssert = FALSE
    /\ last = Last("none", NoGw, 0, "", 0, <<>>, "none", NoRec)

Running == last.fault = "none"

\* the attributes become those of st
Becomes(st) ==
    /\ monitors' = st.monitors
    /\ monorder' = st.monorder
    /\ ownmon' = st.ownmon
    /\ currentmon' = st.currentmon
    /\ trkAssert' = st.bad

FaultOf(st, fault) == IF st.bad THEN "AssertionError" ELSE fault

\* load_config (47-61): also what reload_dispatcher_config runs again
LoadConfig ==
    /\ Running
    /\ \E g \in GwStates :
         LET activews == GwActiveWorkspace(g)
             allmonitorinfo == GwMonitors(g)
         IN  /\ ownmon' = Monitor(activews.monitor, activews.monitorID, activews.id)
             /\ currentmon' = Own
             /\ monitors' = [n \in DOMAIN g.ws |->
                               Monitor(n, MonitorID(n), g.ws[n])]
             /\ monorder' = [i \in 1..Len(allmonitorinfo) |-> allmonitorinfo[i].name]
             /\ last' = Last("load_config", g, 0, "", 0, <<>>, "none", NoRec)
    /\ loaded' = TRUE
    /\ UNCHANGED <<trkAssert, monVars, rdVars, skVars, engVars>>

\* handle_event, "focusedmon" (66-71)
FocusedMon ==
    /\ loaded /\ Running
    /\ \E monname \in MonNames, wkspcid \in Workspaces :
         IF monname \in DOMAIN monitors
         THEN /\ currentmon' = monname
              /\ ownmon' = NoRec      \* no reference to that object is left
              /\ last' = Last("focusedmon", NoGw, 0, monname, 0, <<>>, "none", NoRec)
         ELSE /\ last' = Last("focusedmon", NoGw, 0, monname, 0, <<>>, "KeyError", NoRec)
              /\ UNCHANGED <<currentmon, ownmon>>
    /\ UNCHANGED <<loaded, monitors, monorder, trkAssert, monVars, rdVars, skVars, engVars>>

\* handle_event, "workspace" (73-78)
WorkspaceEv ==
    /\ loaded /\ Running
    /\ \E wkspcid \in Workspaces :
         \E st \in {SetCurrent(TrkState, wkspcid)} :
             /\ Becomes(st)
             /\ last' = Last("workspace", NoGw, wkspcid, "", 0, <<>>,
                             FaultOf(st, "none"), NoRec)
    /\ UNCHANGED <<loaded, monVars, rdVars, skVars, engVars>>

\* handle_event, "moveworkspacev2" (80-84)
MoveWorkspaceV2 ==
    /\ loaded /\ Running
    /\ \E wkspcid \in Workspaces, monname \in MonNames :
         IF monname \in DOMAIN monitors
         THEN \E st \in {SetEntry(TrkState, monname, wkspcid)} :
                  /\ Becomes(st)
                  /\ last' = Last("moveworkspacev2", NoGw, wkspcid, monname, 0, <<>>,
                                  FaultOf(st, "none"), NoRec)
         ELSE /\ last' = Last("moveworkspacev2", NoGw, wkspcid, monname, 0, <<>>,
                              "KeyError", NoRec)
              /\ UNCHANGED <<monitors, monorder, ownmon, currentmon, trkAssert>>
    /\ UNCHANGED <<loaded, monVars, rdVars, skVars, engVars>>

\* a handler that falls back to the first workspace when the data names none
TriggerTargetOrFirst(data) == IF data.kind = "int" THEN Some(data.val) ELSE Some(1)

\* lines 88-96: the workspace to change to as Some(id); None for the two
\* early returns (no match, ValueError from int)
TriggerTarget(data) == IF data.kind = "int" THEN Some(data.val) ELSE None

\* handle_event, "custom" (86-98), with the gateway answering from snapshot g
\* for as long as the call lasts
Custom ==
    /\ loaded /\ Running
    /\ \E data \in CustomData, g \in GwStates :
         IF TriggerTarget(data) = None
         THEN /\ last' = Last("custom", NoGw, 0, data.kind, 0, <<>>, "none", NoRec)
              /\ UNCHANGED <<monitors, monorder, ownmon, currentmon, trkAssert>>
         ELSE \E r \in {DoWorkspaceChange(TrkState, g, TriggerTarget(data)[1], {})} :
                  /\ Becomes(r.st)
                  /\ last' = Last("custom", g, TriggerTarget(data)[1], data.kind,
                                  r.calls, r.cmds,
                                  FaultOf(r.st, r.fault),
                                  CurrentMon(UpdateMonitorInfo(TrkState, g)))
    /\ UNCHANGED <<loaded, monVars, rdVars, skVars, engVars>>

TrkNext == LoadConfig \/ FocusedMon \/ WorkspaceEv \/ MoveWorkspaceV2 \/ Custom

(***************************************************************************)
(* get_next_event (__init__.py 195-211).  A line is a sequence of          *)
(* one-character strings; ">" is the character the separator is made of.   *)
(***************************************************************************)
RECURSIVE SeqsUpTo(_, _)
SeqsUpTo(S, n) ==
    IF n = 0 THEN {<<>>}
    ELSE LET shorter == SeqsUpTo(S, n - 1)
         IN  shorter \cup {Append(q, c) : q \in {r \in shorter : Len(r) = n - 1}, c \in S}

\* ">>" starts at position i of s
SepAt(s, i) == i >= 1 /\ i + 1 <= Len(s) /\ s[i] = ">" /\ s[i + 1] = ">"

\* HyprEvent(name, data)
HyprEvent(name, data) == [name |-> name, data |-> data]

\* regex1 = (.+)>>(.+) under re.search, on a string without newline: the
\* match starts at the leftmost position k that admits one; group 1 is
\* greedy, so it ends as far right as a ">>" followed by at least one
\* character allows; group 2 is greedy too and takes the rest.  None when
\* nothing matches, else Some(<<group 1, group 2>>).
Regex1Search(s) ==
    LET splits(k) == {i \in (k + 1)..(Len(s) - 2) : SepAt(s, i)}
        starts == {k \in 1..Len(s) : splits(k) # {}}
    IN  IF starts = {} THEN None
        ELSE LET k == CHOOSE a \in starts : \A b \in starts : a <= b
                 i == CHOOSE a \in splits(k) : \A b \in splits(k) : a >= b
             IN  Some(<<SubSeq(s, k, i - 1), SubSeq(s, i + 2, Len(s))>>)

\* get_next_event, lines 205-211, for the line buf: None or Some(event)
ParseLine(buf) ==
    LET rsearch == Regex1Search(buf)
    IN  IF rsearch = None THEN None
        ELSE Some(HyprEvent(rsearch[1][1], rsearch[1][2]))

(***************************************************************************)
(* SpecReader: one line, framed once                                       *)
(***************************************************************************)
RdChars == {"a", ">"}

RdIdle ==
    /\ rdLine = <<>>
    /\ rdEvent = None
    /\ rdDone = FALSE

RdInit ==
    /\ rdLine \in SeqsUpTo(RdChars, MaxLine)
    /\ rdEvent = None
    /\ rdDone = FALSE

\* get_next_event: recv hands out the bytes of rdLine, then the newline
GetNextEvent ==
    /\ ~rdDone
    /\ rdEvent' = ParseLine(rdLine)
    /\ rdDone' = TRUE
    /\ UNCHANGED <<rdLine, monVars, trkVars, skVars, engVars>>

RdNext == GetNextEvent

(***************************************************************************)
(* SpecStream: get_next_event (195-211) byte by byte.  The peer writes     *)
(* bytes to the socket and may close it; mainloop calls get_next_event     *)
(* again whenever it has returned (226-232).  A value of recv(1) is a      *)
(* sequence of at most one character: <<>> is b"", which a blocking        *)
(* socket returns only once the peer has closed and no byte is left.       *)
(***************************************************************************)
Newline == "\n"
SkChars == {"a", ">", Newline}

SkIdle ==
    /\ sockData = <<>>
    /\ sockEof = FALSE
    /\ nSent = 0
    /\ gneBuf = <<>>
    /\ gneC = <<>>
    /\ gnePc = "idle"
    /\ gneResult = None

\* the peer writes one byte
PeerSend ==
    /\ ~sockEof
    /\ nSent < MaxSent
    /\ \E b \in SkChars : sockData' = Append(sockData, b)
    /\ nSent' = nSent + 1
    /\ UNCHANGED <<sockEof, gneBuf, gneC, gnePc, gneResult, monVars, trkVars, rdVars, engVars>>

\* the peer closes the socket
PeerClose ==
    /\ ~sockEof
    /\ sockEof' = TRUE
    /\ UNCHANGED <<sockData, nSent, gneBuf, gneC, gnePc, gneResult,
                   monVars, trkVars, rdVars, engVars>>

\* mainloop calls get_next_event (228); buf = b"" (197)
CallGetNextEvent ==
    /\ gnePc \in {"idle", "returned"}
    /\ gneBuf' = <<>>
    /\ gnePc' = "recv"
    /\ UNCHANGED <<sockData, sockEof, nSent, gneC, gneResult, monVars, trkVars, rdVars, engVars>>

\* c = self.eventsock.recv(1) (199): blocks while nothing has arrived and
\* the peer has not closed
Recv ==
    /\ gnePc = "recv"
    /\ sockData # <<>> \/ sockEof
    /\ IF sockData # <<>>
       THEN gneC' = <<Head(sockData)>> /\ sockData' = Tail(sockData)
       ELSE gneC' = <<>> /\ sockData' = sockData
    /\ gnePc' = "test"
    /\ UNCHANGED <<sockEof, nSent, gneBuf, gneResult, monVars, trkVars, rdVars, engVars>>

\* lines 200-203, and 205-211 once the newline has come
TestByte ==
    /\ gnePc = "test"
    /\ IF gneC = <<Newline>>
       THEN /\ gneResult' = ParseLine(gneBuf)
            /\ gnePc' = "returned"
            /\ gneBuf' = gneBuf
       ELSE /\ gneBuf' = gneBuf \o gneC
            /\ gnePc' = "recv"       \* while True
            /\ gneResult' = gneResult
    /\ UNCHANGED <<sockData, sockEof, nSent, gneC, monVars, trkVars, rdVars, engVars>>

SkInit == SkIdle

SkNext == PeerSend \/ PeerClose \/ CallGetNextEvent \/ Recv \/ TestByte

(***************************************************************************)
(* EventHandler (__init__.py 53-236).                                      *)
(*                                                                         *)
(* The configuration is read once, in __init__: two sections with a        *)
(* subscription list each; "unconfigured" is a plugin without a section.   *)
(* Event names are one character: c custom, w workspace, a activewindow.   *)
(***************************************************************************)
ConfigSections == {"workspaceswap", "duckypad"}
DispNames == ConfigSections \cup {"unconfigured"}

\* self.config[name]["subscribes"]
Subscribes(n) ==
    IF n = "workspaceswap" THEN << <<"w">>, <<"c">> >>
    ELSE << <<"a">>, <<"c">> >>

EvChars == {"c", "w", ">"}

\* the lines the main loop is fed: all those no longer than the shortest
\* line that frames an event; what the reader makes of longer lines is
\* SpecReader's matter
ShortestFrame == <<"c", ">", ">", "c">>
EvLines == SeqsUpTo(EvChars, Len(ShortestFrame))

\* load_plugin_as_module executes the plugin file again on every call, so
\* module.handler is a new object every time; k counts them per name
Handler(n, k) == [name |-> n, gen |-> k]

NoEvent == HyprEvent(<<>>, <<>>)
NoOp == [op |-> "none", name |-> "", ok |-> TRUE]

EngIdle ==
    /\ handlers = <<>>
    /\ dispatchers = <<>>
    /\ gens = [n \in DispNames |-> 0]
    /\ lastOp = NoOp
    /\ pc = "setup"
    /\ running = TRUE
    /\ sockOpen = TRUE
    /\ event = NoEvent
    /\ idx = 0
    /\ nEvents = 0
    /\ elog = <<>>

\* EventHandler.__init__ (58-92): connected, both registries empty
EngInit == EngIdle

\* d[k] = v on a dict
Put(d, k, v) == [x \in DOMAIN d \cup {k} |-> IF x = k THEN v ELSE d[x]]

\* del d[k]
Del(d, k) == [x \in DOMAIN d \ {k} |-> d[x]]

\* list.remove(x): the list without its first element equal to x
RemoveFirst(list, x) ==
    LET i == CHOOSE a \in 1..Len(list) :
                 list[a] = x /\ \A b \in 1..(a - 1) : list[b] # x
    IN  SubSeq(list, 1, i - 1) \o SubSeq(list, i + 1, Len(list))

\* load_dispatcher, the for loop (119-124), from element i of the list on
RECURSIVE SubscribeLoop(_, _, _, _)
SubscribeLoop(d, events, i, handler) ==
    IF i > Len(events) THEN d
    ELSE LET ev == events[i]
             d1 == IF ev \in DOMAIN d
                   THEN Put(d, ev, Append(d[ev], handler))
                   ELSE Put(d, ev, <<handler>>)
         IN  SubscribeLoop(d1, events, i + 1, handler)

\* unload_dispatcher, the for loop (130-131), from element i of the list
\* on: the lists it leaves, and whether it ran through (a missing key or a
\* handler that is in no list ends it with KeyError or ValueError)
RECURSIVE UnsubscribeLoop(_, _, _, _)
UnsubscribeLoop(d, events, i, dispatcher) ==
    IF i > Len(events) THEN [d |-> d, ok |-> TRUE]
    ELSE LET ev == events[i]
         IN  IF ev \notin DOMAIN d THEN [d |-> d, ok |-> FALSE]
             ELSE IF \A a \in 1..Len(d[ev]) : d[ev][a] # dispatcher
                  THEN [d |-> d, ok |-> FALSE]
                  ELSE UnsubscribeLoop(Put(d, ev, RemoveFirst(d[ev], dispatcher)),
                                       events, i + 1, dispatcher)

InSetup == pc = "setup"

\* load_dispatcher calls made so far
RECURSIVE SumOver(_, _)
SumOver(f, S) ==
    IF S = {} THEN 0
    ELSE LET n == CHOOSE x \in S : TRUE IN f[n] + SumOver(f, S \ {n})

Loads == SumOver(gens, DispNames)

\* load_dispatcher (106-124); the handler's load_config returns or raises
LoadDispatcher ==
    /\ InSetup
    /\ \E dispname \in DispNames, configured \in BOOLEAN :
         LET handler == Handler(dispname, gens[dispname] + 1)
         IN  /\ Loads < MaxLoads
             /\ gens' = [gens EXCEPT ![dispname] = @ + 1]
             /\ handlers' = Put(handlers, dispname, handler)
             /\ IF dispname \in ConfigSections /\ configured
                THEN /\ dispatchers' = SubscribeLoop(dispatchers, Subscribes(dispname),
                                                     1, handler)
                     /\ lastOp' = [op |-> "load", name |-> dispname, ok |-> TRUE]
                ELSE /\ dispatchers' = dispatchers
                     /\ lastOp' = [op |-> "load", name |-> dispname, ok |-> FALSE]
    /\ UNCHANGED <<pc, running, sockOpen, event, idx, nEvents, elog,
                   monVars, trkVars, rdVars, skVars>>

\* the registries, as load_all_dispatchers hands them from one
\* load_dispatcher call to the next
Registries == [handlers |-> handlers, dispatchers |-> dispatchers, gens |-> gens]

\* load_dispatcher (106-124) on the registries reg; configured: load_config
\* returns.  ok: the call returned, it did not raise
LoadDispatcherOn(reg, dispname, configured) ==
    LET handler == Handler(dispname, reg.gens[dispname] + 1)
        ok == dispname \in ConfigSections /\ configured
    IN  [handlers |-> Put(reg.handlers, dispname, handler),
         gens |-> [reg.gens EXCEPT ![dispname] = @ + 1],
         dispatchers |-> IF ok
                         THEN SubscribeLoop(reg.dispatchers, Subscribes(dispname),
                                            1, handler)
                         ELSE reg.dispatchers,
         ok |-> ok]

\* a loop that lets the exception of a failed load end it
AfterLoadFailureAbort(loadedlist, i) == Len(loadedlist) + 1

\* except Exception: continue (101-102): on with the next name
AfterLoadFailure(loadedlist, i) == i + 1

\* load_all_dispatchers, the for loop (98-102), from element i of loaded on
RECURSIVE LoadAllLoop(_, _, _, _)
LoadAllLoop(reg, loadedlist, configured, i) ==
    IF i > Len(loadedlist) THEN reg
    ELSE LET r == LoadDispatcherOn(reg, loadedlist[i], configured[i])
         IN  LoadAllLoop(r, loadedlist, configured,
                         IF r.ok THEN i + 1 ELSE AfterLoadFailure(loadedlist, i))

\* the lists config["general"]["loaded"] may hold, of n names at most
LoadedLists(n) == {l \in SeqsUpTo(DispNames, n) : l # <<>>}

\* load_all_dispatchers (95-103); configured[i]: the load_config of the i-th
\* name returns
LoadAllDispatchers ==
    /\ InSetup
    /\ Loads < MaxLoads
    /\ \E loadedlist \in LoadedLists(MaxLoads - Loads) :
         \E configured \in [1..Len(loadedlist) -> BOOLEAN] :
             \E r \in {LoadAllLoop(Registries, loadedlist, configured, 1)} :
                 /\ handlers' = r.handlers
                 /\ dispatchers' = r.dispatchers
                 /\ gens' = r.gens
                 /\ lastOp' = [op |-> "load_all", name |-> "", ok |-> TRUE,
                               loaded |-> loadedlist, configured |-> configured,
                               before |-> gens]
    /\ UNCHANGED <<pc, running, sockOpen, event, idx, nEvents, elog,
                   monVars, trkVars, rdVars, skVars>>

\* unload_dispatcher (127-133)
UnloadDispatcher ==
    /\ InSetup
    /\ \E dispname \in DispNames :
         IF dispname \notin ConfigSections \/ dispname \notin DOMAIN handlers
         THEN /\ lastOp' = [op |-> "unload", name |-> dispname, ok |-> FALSE]
              /\ UNCHANGED <<handlers, dispatchers>>
         ELSE \E r \in {UnsubscribeLoop(dispatchers, Subscribes(dispname), 1,
                                        handlers[dispname])} :
                  /\ dispatchers' = r.d
                  /\ handlers' = IF r.ok THEN Del(handlers, dispname) ELSE handlers
                  /\ lastOp' = [op |-> "unload", name |-> dispname, ok |-> r.ok]
    /\ UNCHANGED <<gens, pc, running, sockOpen, event, idx, nEvents, elog,
                   monVars, trkVars, rdVars, skVars>>

\* reload_dispatcher_config (136-139): load_config again, on the same object
ReloadDispatcherConfig ==
    /\ InSetup
    /\ \E dispname \in DispNames, configured \in BOOLEAN :
         lastOp' = [op |-> "reload", name |-> dispname,
                    ok |-> /\ dispname \in ConfigSections
                           /\ dispname \in DOMAIN handlers
                           /\ configured]
    /\ UNCHANGED <<handlers, dispatchers, gens, pc, running, sockOpen, event, idx,
                   nEvents, elog, monVars, trkVars, rdVars, skVars>>

\* main (hypreventmanager.py 4-7) goes on to mainloop
StartMainloop ==
    /\ InSetup
    /\ pc' = "check"
    /\ lastOp' = NoOp       \* no call is in progress any more
    /\ UNCHANGED <<handlers, dispatchers, gens, running, sockOpen, event, idx,
                   nEvents, elog, monVars, trkVars, rdVars, skVars>>

\* mainloop, the while test (226) and, once it fails, teardown (236, 220-221)
LoopCheck ==
    /\ pc = "check"
    /\ IF running
       THEN pc' = "read" /\ sockOpen' = sockOpen
       ELSE pc' = "done" /\ sockOpen' = FALSE
    /\ UNCHANGED <<handlers, dispatchers, gens, lastOp, running, event, idx,
                   nEvents, elog, monVars, trkVars, rdVars, skVars>>

\* mainloop 228-232 with get_next_event: a line arrives; no event for it
\* means continue, an event goes to dispatch_event
ReadEvent ==
    /\ pc = "read"
    /\ nEvents < MaxEvents
    /\ \E line \in EvLines :
         LET ev == ParseLine(line)
         IN  IF ev = None
             THEN /\ pc' = "check"
                  /\ UNCHANGED <<event, idx, nEvents, elog>>
             ELSE /\ pc' = "dispatch"
                  /\ event' = ev[1]
                  /\ idx' = 1
                  /\ nEvents' = nEvents + 1
                  /\ elog' = Append(elog, [what |-> "read", ev |-> nEvents + 1,
                                           name |-> ev[1].name])
    /\ UNCHANGED <<handlers, dispatchers, gens, lastOp, running, sockOpen,
                   monVars, trkVars, rdVars, skVars>>

\* the list dispatch_event iterates for an event name: empty when the name
\* is no key of self.dispatchers (215)
Subscribed(d, name) == IF name \in DOMAIN d THEN d[name] ELSE <<>>

\* the for loop taking the list from its end
DispatcherAtReversed(list, i) == list[Len(list) + 1 - i]

\* the handler the for loop (216) takes at position i
DispatcherAt(list, i) == list[i]

\* a for loop that gives up after its first handler
AfterReturnSkipRest(i) == i + MaxLoads + 2

\* where a handler's return leaves the for loop: at the next position
AfterReturn(i) == i + 1

\* where control is after handle_event raised: nothing catches it
AfterFault == "crashed"

\* dispatch_event (214-217): the for loop takes its next handler and calls
\* handle_event, or is through
DispatchStep ==
    /\ pc = "dispatch"
    /\ LET list == Subscribed(dispatchers, event.name)
       IN  IF idx <= Len(list)
           THEN /\ pc' = "handling"
                /\ elog' = Append(elog, [what |-> "start", ev |-> nEvents,
                                         handler |-> DispatcherAt(list, idx)])
                /\ UNCHANGED <<event, idx>>
           ELSE \* back in mainloop; its local variable event is dead
                /\ pc' = "check"
                /\ elog' = elog
                /\ event' = NoEvent
                /\ idx' = 0
    /\ UNCHANGED <<handlers, dispatchers, gens, lastOp, running, sockOpen,
                   nEvents, monVars, trkVars, rdVars, skVars>>

\* handle_event returns
HandleReturn ==
    /\ pc = "handling"
    /\ elog' = Append(elog, [what |-> "end", ev |-> nEvents])
    /\ idx' = AfterReturn(idx)
    /\ pc' = "dispatch"
    /\ UNCHANGED <<handlers, dispatchers, gens, lastOp, running, sockOpen, event,
                   nEvents, monVars, trkVars, rdVars, skVars>>

\* handle_event raises: the exception leaves dispatch_event and mainloop
HandleFault ==
    /\ pc = "handling"
    /\ elog' = Append(elog, [what |-> "fault", ev |-> nEvents])
    /\ pc' = AfterFault
    /\ UNCHANGED <<handlers, dispatchers, gens, lastOp, running, sockOpen, event, idx,
                   nEvents, monVars, trkVars, rdVars, skVars>>

\* an except clause that leaves the flag as it was
RunningAfterInterruptKept == TRUE

\* self.running after the except clause (234)
RunningAfterInterrupt == FALSE

\* KeyboardInterrupt inside the try of mainloop (227-234): while recv
\* blocks, or while dispatch_event or a handler runs
Interrupt ==
    /\ pc \in {"read", "dispatch", "handling"}
    /\ running' = RunningAfterInterrupt
    /\ pc' = "check"
    /\ elog' = Append(elog, [what |-> "interrupt", ev |-> nEvents])
    /\ UNCHANGED <<handlers, dispatchers, gens, lastOp, sockOpen, event, idx,
                   nEvents, monVars, trkVars, rdVars, skVars>>

EngNext ==
    \/ LoadAllDispatchers
    \/ LoadDispatcher \/ UnloadDispatcher \/ ReloadDispatcherConfig
    \/ StartMainloop \/ LoopCheck \/ ReadEvent \/ DispatchStep
    \/ HandleReturn \/ HandleFault \/ Interrupt

(***************************************************************************)
(* The specifications                                                      *)
(***************************************************************************)
MonNext == MonSetCurrWkspc

InitMon == MonInit /\ TrkInit /\ RdIdle /\ SkIdle /\ EngIdle

SpecMon == InitMon /\ [][MonNext]_vars

InitTracker == MonIdle /\ TrkInit /\ RdIdle /\ SkIdle /\ EngIdle

SpecTracker == InitTracker /\ [][TrkNext]_vars

InitReader == MonIdle /\ TrkInit /\ RdInit /\ SkIdle /\ EngIdle

SpecReader == InitReader /\ [][RdNext]_vars

InitEngine == MonIdle /\ TrkInit /\ RdIdle /\ SkIdle /\ EngInit

SpecEngine == InitEngine /\ [][EngNext]_vars

\* the process keeps running: once the while test of mainloop can be made,
\* it is made
SpecEngineLive == InitEngine /\ [][EngNext]_vars /\ WF_vars(LoopCheck)

InitStream == MonIdle /\ TrkInit /\ RdIdle /\ SkInit /\ EngIdle

\* the process keeps running: a step of get_next_event or of mainloop that
\* can be taken is taken; the peer owes nothing
SpecStream ==
    /\ InitStream /\ [][SkNext]_vars
    /\ WF_vars(CallGetNextEvent) /\ WF_vars(Recv) /\ WF_vars(TestByte)

(***************************************************************************)
(* Claims about Monitor.set_curr_wkspc (SpecMon)                           *)
(***************************************************************************)

\* C1: on a record built with an integer current workspace and no previous
\* one, after any sequence of set_curr_wkspc calls, current and previous
\* differ whenever both are set, and the assert of set_curr_wkspc never
\* fails.
C1_CurrentDiffersFromPrevious ==
    /\ ~recAssert
    /\ \A i \in DOMAIN recTrace :
         (recTrace[i].curr_wkspc # None /\ recTrace[i].prev_wkspc # None)
            => recTrace[i].curr_wkspc # recTrace[i].prev_wkspc

\* both fields are set and the last call assigned the value already current
C1_Witness ==
    /\ Len(recArgs) >= 2
    /\ rec.prev_wkspc # None
    /\ rec.curr_wkspc = Some(recArgs[Len(recArgs)])
    /\ recArgs[Len(recArgs)] = recArgs[Len(recArgs) - 1]

\* C9: set_curr_wkspc(w) called twice in a row leaves the record as one
\* call does; the second call changes nothing, previous_workspace included.
C9_AssignmentIdempotent ==
    \A i \in 1..(Len(recArgs) - 1) :
        recArgs[i] = recArgs[i + 1] => recTrace[i + 2] = recTrace[i + 1]

\* the same id was assigned twice in a row to a record with a history
C9_Witness ==
    \E i \in 1..(Len(recArgs) - 1) :
        /\ recArgs[i] = recArgs[i + 1]
        /\ recTrace[i + 1].prev_wkspc # None
        /\ recTrace[i + 2].prev_wkspc = recTrace[i + 1].prev_wkspc

(***************************************************************************)
(* Claims about the toggle (SpecTracker)                                   *)
(***************************************************************************)
\* the last operation was a toggle: a custom event carrying an integer
Toggled == last.op = "custom" /\ last.gw # NoGw

\* the current workspace of the active monitor, as the gateway reports it
GwCurrent(g) == g.ws[g.active]

\* length of the previous-workspace chain of the active monitor's record
ChainLen(m) == IF m.prev_wkspc = None THEN 0 ELSE 1

\* C5: with the gateway's answers fixed for the call, do_workspace_change
\* returns, after at most (previous-workspace chain length + 1) recursive
\* calls.
C5_ToggleTerminates ==
    Toggled =>
        /\ last.fault # "RecursionError"
        /\ last.calls - 1 <= ChainLen(last.resynced) + 1

\* C6: toggling onto the workspace the gateway reports as current on the
\* active monitor, whose record has a previous workspace p after the
\* resync, sends exactly one focus request, for p, and none for the target.
C6_ToggleToPrevious ==
    (Toggled /\ last.arg = GwCurrent(last.gw) /\ last.resynced.prev_wkspc # None)
        => last.cmds = <<last.resynced.prev_wkspc[1]>>

\* C7: toggling onto a workspace that is not current on the active monitor
\* sends exactly one focus request, for that workspace, without recursing.
C7_ToggleElsewhere ==
    (Toggled /\ last.arg # GwCurrent(last.gw))
        => last.cmds = <<last.arg>> /\ last.calls = 1

\* C8: toggling onto the active monitor's current workspace when its record
\* has no previous workspace sends no focus request and returns.
C8_ToggleNoHistory ==
    (Toggled /\ last.arg = GwCurrent(last.gw) /\ last.resynced.prev_wkspc = None)
        => last.cmds = <<>> /\ last.fault = "none"

(***************************************************************************)
(* Claims about the stream reader (SpecReader)                             *)
(***************************************************************************)
ContainsSep(s) == \E i \in 1..Len(s) : SepAt(s, i)

FirstSep(s) == CHOOSE i \in 1..Len(s) : SepAt(s, i) /\ \A j \in 1..(i - 1) : ~SepAt(s, j)

\* C4: for a line that contains ">>" (with something before its first ">>"
\* and something after it), get_next_event returns the event whose name is
\* the text before the first ">>" and whose data is all that follows it.
C4_SplitsAtFirstSeparator ==
    (rdDone /\ ContainsSep(rdLine)
        /\ FirstSep(rdLine) > 1 /\ FirstSep(rdLine) + 2 <= Len(rdLine))
    => /\ rdEvent # None
       /\ rdEvent[1].name = SubSeq(rdLine, 1, FirstSep(rdLine) - 1)
       /\ rdEvent[1].data = SubSeq(rdLine, FirstSep(rdLine) + 2, Len(rdLine))

(***************************************************************************)
(* Claims about the dispatch engine (SpecEngine)                           *)
(***************************************************************************)
\* some subscription list holds a handler object made for name n
Listed(n) ==
    \E ev \in DOMAIN dispatchers :
        \E i \in 1..Len(dispatchers[ev]) : dispatchers[ev][i].name = n

\* handle_event of a handler object made for name n was called
Invoked(n) ==
    \E j \in 1..Len(elog) : elog[j].what = "start" /\ elog[j].handler.name = n

\* unload_dispatcher(n) has returned and n was not loaded again: the name
\* enters self.handlers with every load_dispatcher call (line 109) and only
\* line 133 takes it out
Unloaded(n) == gens[n] > 0 /\ n \notin DOMAIN handlers

\* C2: once unload_dispatcher(name) has returned, whatever loads, unloads
\* and reloads came before, no subscription list holds the handler of that
\* name and no later dispatch calls its handle_event.
C2_UnloadRemovesHandler ==
    \A n \in DispNames : Unloaded(n) => ~Listed(n) /\ ~Invoked(n)

\* the entries of elog that belong to event k, in order
EntriesOf(k) == SelectSeq(elog, LAMBDA e : e.ev = k)

\* the handlers started for event k, in order
StartedFor(k) ==
    LET starts == SelectSeq(elog, LAMBDA e : e.what = "start" /\ e.ev = k)
    IN  [i \in 1..Len(starts) |-> starts[i].handler]

\* the name event k arrived with
NameOf(k) ==
    LET reads == SelectSeq(elog, LAMBDA e : e.what = "read" /\ e.ev = k)
    IN  reads[1].name

\* a handler raised, or the operator interrupted, during event k
CutShort(k) ==
    \E j \in 1..Len(elog) : elog[j].ev = k /\ elog[j].what \in {"fault", "interrupt"}

\* dispatch_event has returned for event k
Dispatched(k) ==
    ~CutShort(k) /\ (k < nEvents \/ pc \notin {"dispatch", "handling"})

\* C3: dispatch_event calls the handlers subscribed to the event's name in
\* the order of their registration, one after the other has returned; all
\* of them when none raises; none after one that raised; none at all for a
\* name without a subscription list.
C3_DispatchInRegistrationOrder ==
    /\ \A k \in 1..nEvents :
         LET list == Subscribed(dispatchers, NameOf(k))
             started == StartedFor(k)
         IN  /\ Len(started) <= Len(list)
             /\ \A i \in 1..Len(started) : started[i] = list[i]
             /\ Dispatched(k) => Len(started) = Len(list)
             /\ NameOf(k) \notin DOMAIN dispatchers => started = <<>>
    /\ \A j \in 1..Len(elog) :
         /\ (elog[j].what = "start" /\ j < Len(elog))
               => elog[j + 1].what \in {"end", "fault", "interrupt"}
         /\ elog[j].what = "fault" => j = Len(elog)

\* two different handlers subscribed to one event were both called for it
C3_Witness ==
    \E k \in 1..nEvents :
        /\ Dispatched(k)
        /\ Len(StartedFor(k)) >= 2
        /\ StartedFor(k)[1] # StartedFor(k)[2]

\* C10: the main loop dispatches events in the order their lines arrive,
\* and every handler called for one event has returned before the next
\* line is read or a handler is called for the next event.
C10_EventsInArrivalOrder ==
    /\ \A j \in 1..Len(elog) :
         \A i \in 1..(j - 1) : elog[i].ev <= elog[j].ev
    /\ \A k \in 1..nEvents :
         /\ EntriesOf(k)[1].what = "read"
         /\ \A i \in 2..Len(EntriesOf(k)) : EntriesOf(k)[i].what # "read"
    /\ \A k \in 1..(nEvents - 1) :
         /\ ~CutShort(k)
         /\ StartedFor(k) = Subscribed(dispatchers, NameOf(k))
         /\ EntriesOf(k)[Len(EntriesOf(k))].what \in {"read", "end"}

\* a second event was dispatched to a handler after a first one was
C10_Witness ==
    /\ nEvents >= 2
    /\ Len(StartedFor(1)) >= 1
    /\ Len(StartedFor(2)) >= 1
    /\ Dispatched(2)

(***************************************************************************)
(* Claims about the recv loop (SpecStream)                                 *)
(***************************************************************************)
\* recv has returned no bytes: the peer has closed the channel
RecvReturnedNothing == gnePc = "test" /\ gneC = <<>>

\* C11: once recv returns no bytes because the peer closed the channel, the
\* read in progress comes to an end: get_next_event returns, instead of
\* calling recv for ever.
C11_ReaderEndsOnClosure == RecvReturnedNothing ~> (gnePc \notin {"recv", "test"})

(***************************************************************************)
(* Claims about shutdown and bulk loading (SpecEngineLive, SpecEngine)     *)
(***************************************************************************)
\* KeyboardInterrupt has reached the except clause of mainloop
InterruptSeen == \E j \in 1..Len(elog) : elog[j].what = "interrupt"

\* nothing was read or dispatched after it
NothingAfterInterrupt ==
    \A j \in 1..Len(elog) : elog[j].what = "interrupt" => j = Len(elog)

\* C12: once KeyboardInterrupt is delivered to mainloop, self.running is
\* False, no further event is read or dispatched, and the loop eventually
\* exits with teardown having closed the event socket.
C12_ShutdownOnInterrupt ==
    /\ [](InterruptSeen => ~running /\ NothingAfterInterrupt)
    /\ (InterruptSeen ~> (pc = "done" /\ ~sockOpen))

\* the interrupt came while a handler ran, and the process has shut down
C12_Witness ==
    /\ InterruptSeen
    /\ Len(elog) >= 2 /\ elog[Len(elog) - 1].what = "start"
    /\ pc = "done" /\ ~sockOpen

\* how often name n comes among the first i names of list l
Occurrences(l, n, i) == Cardinality({j \in 1..i : l[j] = n})

\* the handler object the i-th load_dispatcher call of the last
\* load_all_dispatchers made
MadeBy(i) ==
    LET n == lastOp.loaded[i]
    IN  Handler(n, lastOp.before[n] + Occurrences(lastOp.loaded, n, i))

\* the i-th name of the last load_all_dispatchers has a configuration
\* section and its load_config returned
LoadsFine(i) == lastOp.loaded[i] \in ConfigSections /\ lastOp.configured[i]

\* C13: after load_all_dispatchers, every listed name that has a section
\* and whose load_config returned is in self.handlers, and the handler made
\* for it is in the list of every event it subscribes to, whichever names
\* before it failed to load.
C13_BulkLoadBestEffort ==
    lastOp.op = "load_all" =>
        \A i \in 1..Len(lastOp.loaded) :
            LoadsFine(i) =>
                /\ lastOp.loaded[i] \in DOMAIN handlers
                /\ \A k \in 1..Len(Subscribes(lastOp.loaded[i])) :
                     LET ev == Subscribes(lastOp.loaded[i])[k]
                     IN  /\ ev \in DOMAIN dispatchers
                         /\ \E a \in 1..Len(dispatchers[ev]) :
                                dispatchers[ev][a] = MadeBy(i)

\* a name without a section and a name whose load_config raised came before
\* a name that loaded
C13_Witness ==
    /\ lastOp.op = "load_all"
    /\ Len(lastOp.loaded) >= 3
    /\ lastOp.loaded[1] \notin ConfigSections
    /\ lastOp.loaded[2] \in ConfigSections /\ ~lastOp.configured[2]
    /\ LoadsFine(3)
    /\ lastOp.loaded[3] \in DOMAIN handlers

(***************************************************************************)
(* Claims about the tracker's events and its table (SpecTracker)           *)
(***************************************************************************)
\* the name of the monitor self.currentmon stands for
ActiveName == CurrentMon(TrkState).name

\* C14: a "workspace" event with id w applies the assignment rule to the
\* monitor-table entry of the active monitor: afterwards that entry's
\* current workspace is w, and its previous one is the old current when w
\* differs.  This in every state, also right after load_config.
C14_WorkspaceEventUpdatesEntry ==
    [][(last'.op = "workspace" /\ last'.fault = "none") =>
           /\ ActiveName \in DOMAIN monitors
           /\ monitors'[ActiveName] = SetCurrWkspc(monitors[ActiveName], last'.arg)]_vars

\* C15: when a toggle has resynced against a consistent gateway snapshot,
\* the table entry under the name of every monitor the gateway reports has
\* as current workspace the one the gateway reports for that monitor.
\* (Nothing changes the table between the last update_monitor_info of a
\* toggle and its return.)
C15_ResyncMatchesGateway ==
    (Toggled /\ last.fault = "none") =>
        \A m \in DOMAIN last.gw.ws :
            /\ m \in DOMAIN monitors
            /\ monitors[m].curr_wkspc = Some(last.gw.ws[m])

\* C16: a focusedmon or moveworkspacev2 event naming a monitor that is not
\* in the table gets an entry made for it and is applied without a fault.
C16_UnknownMonitorGetsEntry ==
    last.op \in {"focusedmon", "moveworkspacev2"} =>
        /\ last.fault # "KeyError"
        /\ last.mon \in DOMAIN monitors

C20_EntriesNamedByKey ==
    /\ \A k \in DOMAIN monitors : monitors[k].name = k
    /\ \A k1, k2 \in DOMAIN monitors :
         monitors[k1].name = monitors[k2].name => k1 = k2

(***************************************************************************)
(* Claims about double registration and cancellation (SpecEngine)          *)
(***************************************************************************)
\* how often x is in list
Count(list, x) == Cardinality({a \in 1..Len(list) : list[a] = x})

\* the call op was load_dispatcher(n) and it returned
LoadedFine(op, n) == op.op = "load" /\ op.name = n /\ op.ok

\* C17: load_dispatcher(name) called a second time right after the first,
\* with no unload in between, leaves the handler self.handlers holds for
\* the name twice in the list of every event the name subscribes to (so a
\* dispatch calls its handle_event twice), and self.handlers still holds
\* one instance for the name.
C17_DoubleRegistration ==
    [][\A n \in ConfigSections :
          (/\ LoadedFine(lastOp, n) /\ gens[n] = 1
           /\ LoadedFine(lastOp', n) /\ gens'[n] = 2)
          => /\ n \in DOMAIN handlers'
             /\ \A k \in 1..Len(Subscribes(n)) :
                  LET ev == Subscribes(n)[k]
                  IN  /\ ev \in DOMAIN dispatchers'
                      /\ Count(dispatchers'[ev], handlers'[n]) = 2]_vars

\* KeyboardInterrupt was raised while event k was the last one read
InterruptedAt(k) ==
    \E j \in 1..Len(elog) : elog[j].ev = k /\ elog[j].what = "interrupt"

\* C18: an interrupt that arrives while an event is being dispatched does
\* not cut the dispatch short: every handler subscribed to the event is
\* called and returns; the interrupt only keeps the loop from going on to
\* the next event.
C18_InterruptWaitsForDispatch ==
    \A k \in 1..nEvents :
        InterruptedAt(k) =>
            /\ StartedFor(k) = Subscribed(dispatchers, NameOf(k))
            /\ \A j \in 1..Len(elog) :
                 (elog[j].ev = k /\ elog[j].what = "start")
                    => j < Len(elog) /\ elog[j + 1].what = "end"

(***************************************************************************)
(* Claims about failed loads and the release of the socket (SpecEngine)    *)
(***************************************************************************)
\* this step is a load_dispatcher call that raised
FailedLoadStep ==
    /\ lastOp'.op = "load" /\ ~lastOp'.ok
    /\ gens'[lastOp'.name] = gens[lastOp'.name] + 1

\* C21: a load_dispatcher(name) call that fails (no configuration section,
\* or load_config raises) leaves self.handlers and self.dispatchers as they
\* were: a name that was not registered before is not registered after, and
\* no list holds the handler made by the failed call.
C21_FailedLoadChangesNothing ==
    [][FailedLoadStep =>
          /\ handlers' = handlers
          /\ dispatchers' = dispatchers
          /\ (lastOp'.name \notin DOMAIN handlers
                 => lastOp'.name \notin DOMAIN handlers')]_vars

\* mainloop is no longer running: it returned, or an exception left it
MainloopStopped == pc \in {"done", "crashed"}

\* C22: whenever mainloop has stopped, by an operator interrupt or by an
\* exception of a handler, teardown has closed the event socket.
C22_SocketClosedOnExit == MainloopStopped => ~sockOpen

====
